---------------------------- MODULE Spec2Model ----------------------------
(***************************************************************************)
(* Model of src/plotter.py: the telemetry-log parser (parse_uploaded_file), *)
(* the fleet summary (generate_log_info) and the Dash callback              *)
(* update_output that rebuilds the store and computes the selected view.    *)
(*                                                                          *)
(* Text is a sequence of one-character strings, so that split, strip,       *)
(* slicing, int() and float() are computed as Python computes them.         *)
(* The uploaded text uses the characters of the log grammar: digits, the    *)
(* key names, "=", ",", "/", "(", ")", " ", "-", "+" and the letters of     *)
(* "None", "garbage" and "x"/"q" (non-numeric tokens).  Numeric literals of *)
(* the uploads are integer literals, for which float(v) is the same number  *)
(* as int(v); an optional value is <<>> (None) or <<v>>.                    *)
(***************************************************************************)
EXTENDS Integers, Sequences, FiniteSets, TLC

VARIABLES
    contents,         \* upload-data.contents: <<>> (None) or <<lines>>
    selected_metric,  \* metric-selector.value
    threshold,        \* drift-threshold.value
    drones_data,      \* the global dict, as its items in insertion order
    log_info,         \* log-info.children, the first output of update_output
    fig,              \* drones-graph.figure, the second output
    status,           \* how the last callback run ended
    triggered,        \* the input whose change fired the last callback run
    discarded         \* the last rebuild dropped a drone id the store held

vars == <<contents, selected_metric, threshold, drones_data, log_info, fig,
          status, triggered, discarded>>

----------------------------------------------------------------------------
(* Bounds of the model. *)

MaxLines == 2

----------------------------------------------------------------------------
(* Python str operations on sequences of characters. *)

None == <<>>

Some(v) == <<v>>

IsSpace(c) == c = " "

RECURSIVE LStrip(_)
LStrip(s) == IF s # <<>> /\ IsSpace(Head(s)) THEN LStrip(Tail(s)) ELSE s

RECURSIVE RStrip(_)
RStrip(s) ==
    IF s # <<>> /\ IsSpace(s[Len(s)]) THEN RStrip(SubSeq(s, 1, Len(s) - 1)) ELSE s

Strip(s) == RStrip(LStrip(s))

\* The positions at which sep occurs in s.
SepPositions(s, sep) ==
    {i \in 1..(Len(s) - Len(sep) + 1) :
        s[i] = sep[1] /\ SubSeq(s, i, i + Len(sep) - 1) = sep}

\* The least position of a set of positions, 0 if the set is empty.
FirstOf(occ) == IF occ = {} THEN 0 ELSE CHOOSE i \in occ : \A j \in occ : i <= j

\* s.find(sep) + 1: the first position of sep in s, 0 if there is none.
Find(s, sep) == FirstOf(SepPositions(s, sep))

Contains(s, sep) == Find(s, sep) # 0

\* The occurrences of sep that split takes, left to right without overlap.
RECURSIVE Cuts(_, _, _)
CutAt(occ, width, m) ==
    IF m = 0 THEN <<>> ELSE <<m>> \o Cuts(occ, width, m + width)

Cuts(occ, width, from) == CutAt(occ, width, FirstOf({i \in occ : i >= from}))

\* The pieces of s between the cuts, each cut width characters wide.
Pieces(s, width, cuts) ==
    [k \in 1..(Len(cuts) + 1) |->
        SubSeq(s,
               IF k = 1 THEN 1 ELSE cuts[k - 1] + width,
               IF k = Len(cuts) + 1 THEN Len(s) ELSE cuts[k] - 1)]

\* s.split(sep).
Split(s, sep) == Pieces(s, Len(sep), Cuts(SepPositions(s, sep), Len(sep), 1))

\* s split at the occurrence of a separator at position i, if i > 0.
SplitAt(s, width, i) ==
    IF i = 0 THEN <<s>>
    ELSE <<SubSeq(s, 1, i - 1), SubSeq(s, i + width, Len(s))>>

\* s.split(sep, 1).
SplitOnce(s, sep) == SplitAt(s, Len(sep), Find(s, sep))

RECURSIVE Join(_, _)
Join(parts, sep) ==
    IF parts = <<>> THEN <<>>
    ELSE IF Len(parts) = 1 THEN parts[1]
    ELSE parts[1] \o sep \o Join(Tail(parts), sep)

Replace(s, old, new) == Join(Split(s, old), new)

Slice1ToLast(s) == SubSeq(s, 2, Len(s) - 1)

Digits == <<"0", "1", "2", "3", "4", "5", "6", "7", "8", "9">>

IsDigit(c) == \E d \in 1..10 : Digits[d] = c

DigitVal(c) == (CHOOSE d \in 1..10 : Digits[d] = c) - 1

RECURSIVE DigitsVal(_, _)
DigitsVal(s, acc) ==
    IF s = <<>> THEN acc ELSE DigitsVal(Tail(s), 10 * acc + DigitVal(Head(s)))

AllDigits(s) == s # <<>> /\ \A i \in 1..Len(s) : IsDigit(s[i])

\* The number of a sign and a digit string; not ok is the ValueError.
SignedInt(sign, body) ==
    IF AllDigits(body) THEN [ok |-> TRUE, val |-> sign * DigitsVal(body, 0)]
    ELSE [ok |-> FALSE, val |-> 0]

StrippedInt(s) ==
    IF s # <<>> /\ Head(s) = "-" THEN SignedInt(0 - 1, Tail(s))
    ELSE IF s # <<>> /\ Head(s) = "+" THEN SignedInt(1, Tail(s))
    ELSE SignedInt(1, s)

\* int(text): surrounding whitespace is ignored, one sign is accepted.
ParseInt(text) == StrippedInt(Strip(text))

ParseFloat(text) == ParseInt(text)

CharCode ==
    (" " :> 32) @@ ("(" :> 40) @@ (")" :> 41) @@ ("+" :> 43) @@ ("," :> 44) @@
    ("-" :> 45) @@ ("/" :> 47) @@ ("0" :> 48) @@ ("1" :> 49) @@ ("2" :> 50) @@
    ("3" :> 51) @@ ("4" :> 52) @@ ("5" :> 53) @@ ("6" :> 54) @@ ("7" :> 55) @@
    ("8" :> 56) @@ ("9" :> 57) @@ ("=" :> 61) @@ ("H" :> 72) @@ ("N" :> 78) @@
    ("V" :> 86) @@ ("_" :> 95) @@ ("a" :> 97) @@ ("b" :> 98) @@ ("c" :> 99) @@
    ("d" :> 100) @@ ("e" :> 101) @@ ("f" :> 102) @@ ("g" :> 103) @@
    ("i" :> 105) @@ ("n" :> 110) @@ ("o" :> 111) @@ ("p" :> 112) @@
    ("q" :> 113) @@ ("r" :> 114) @@ ("s" :> 115) @@ ("t" :> 116) @@
    ("x" :> 120) @@ ("y" :> 121)

RECURSIVE StrLess(_, _)
StrLess(a, b) ==
    IF a = <<>> THEN b # <<>>
    ELSE IF b = <<>> THEN FALSE
    ELSE IF Head(a) = Head(b) THEN StrLess(Tail(a), Tail(b))
    ELSE CharCode[Head(a)] < CharCode[Head(b)]

----------------------------------------------------------------------------
(* The literals of the log grammar. *)

kEq       == <<"=">>
kComma    == <<",">>
kSpace    == <<" ">>
kEntrySep == <<"/", "/">>
kGps      == <<"g", "p", "s", "=">>
kNone     == <<"N", "o", "n", "e">>
kBattery  == <<"b", "a", "t", "t", "e", "r", "y">>
kRssi     == <<"r", "s", "s", "i">>
kDriftH   == <<"d", "r", "i", "f", "t", "H">>
kDriftV   == <<"d", "r", "i", "f", "t", "V">>
kFcError  == <<"f", "c", "_", "e", "r", "r", "o", "r">>

ERROR_CODES ==
    (128 :> "COMM T/O") @@ (129 :> "ACK T/O") @@ (130 :> "PROTO") @@
    (131 :> "PREARM") @@ (132 :> "RC LOST") @@ (133 :> "NO GPS") @@
    (139 :> "WIND") @@ (140 :> "PAYLOAD") @@ (141 :> "PROXIMITY") @@
    (188 :> "SIMERR") @@ (189 :> "CONTROL") @@ (190 :> "SENSOR") @@
    (191 :> "ERROR") @@ (192 :> "COMPAT") @@ (193 :> "MAG") @@
    (194 :> "GYRO") @@ (195 :> "ACC") @@ (196 :> "BARO") @@ (197 :> "GPS") @@
    (198 :> "MOTOR") @@ (199 :> "LOWBAT") @@ (200 :> "HOME") @@
    (201 :> "FENCE") @@ (202 :> "CLK") @@ (203 :> "EXTCLK") @@
    (204 :> "NO HW") @@ (205 :> "INITFAIL") @@ (206 :> "COMMFAIL") @@
    (207 :> "CRASH") @@ (255 :> "FATAL")

----------------------------------------------------------------------------
(* parse_uploaded_file: one entry. *)

\* The optional fields before the loop over parts[2:] (line 47).
NoFields ==
    [ok |-> TRUE, battery |-> None, rssi |-> None, driftH |-> None,
     driftV |-> None, fc_error |-> None]

Raised(acc) == [acc EXCEPT !.ok = FALSE]

\* A converted number as the value of an optional field.
Present(n) ==
    IF n.ok THEN [ok |-> TRUE, val |-> Some(n.val)] ELSE [ok |-> FALSE, val |-> None]

\* float(value), raising on a non-numeric value (lines 54, 58, 60).
DecodeFloat(value) == Present(ParseFloat(value))

DecodeRssi_NoSentinel(value) == DecodeFloat(value)

\* float(value) if value != 'None' else None (line 56).
DecodeRssi(value) ==
    IF value # kNone THEN DecodeFloat(value) ELSE [ok |-> TRUE, val |-> None]

\* int(value) (line 62).
DecodeInt(value) == Present(ParseInt(value))

\* The assignment of a decoded value to its variable, or the raise.
SetField(acc, field, r) ==
    IF r.ok THEN [acc EXCEPT ![field] = r.val] ELSE Raised(acc)

\* The chain of tests on key (lines 53-62).
DecodeKeyValue(key, value, acc) ==
    IF key = kBattery THEN SetField(acc, "battery", DecodeFloat(value))
    ELSE IF key = kRssi THEN SetField(acc, "rssi", DecodeRssi(value))
    ELSE IF key = kDriftH THEN SetField(acc, "driftH", DecodeFloat(value))
    ELSE IF key = kDriftV THEN SetField(acc, "driftV", DecodeFloat(value))
    ELSE IF key = kFcError THEN SetField(acc, "fc_error", DecodeInt(value))
    ELSE acc

\* key, value = part.split('='); value = value.strip() (lines 51-52): the
\* unpacking raises unless there are two pieces.
DecodeSplit(kv, acc) ==
    IF Len(kv) # 2 THEN Raised(acc) ELSE DecodeKeyValue(kv[1], Strip(kv[2]), acc)

\* One iteration of the loop over parts[2:] (lines 50-62).
DecodePart(part, acc) ==
    IF ~Contains(part, kEq) THEN acc ELSE DecodeSplit(Split(part, kEq), acc)

RECURSIVE DecodeParts(_, _)
DecodeParts(parts, acc) ==
    IF parts = <<>> \/ ~acc.ok THEN acc
    ELSE DecodeParts(Tail(parts), DecodePart(Head(parts), acc))

BadEntry ==
    [ok |-> FALSE, timestamp |-> 0, gps_status |-> 0, battery |-> None,
     rssi |-> None, driftH |-> None, driftV |-> None, fc_error |-> None]

\* The sample of an entry whose conversions succeeded.
EntryWith(timestamp, gps_status, f) ==
    IF ~f.ok THEN BadEntry
    ELSE [ok |-> TRUE, timestamp |-> timestamp, gps_status |-> gps_status,
          battery |-> f.battery, rssi |-> f.rssi, driftH |-> f.driftH,
          driftV |-> f.driftV, fc_error |-> f.fc_error]

\* The entry once its timestamp and GPS status are converted (lines 45-46).
EntryOf(ts, gps, rest) ==
    IF ~ts.ok \/ ~gps.ok THEN BadEntry
    ELSE EntryWith(ts.val, gps.val, DecodeParts(rest, NoFields))

\* The entry from parts = entry.split(','): parts[1] raises on one part.
EntryOfParts(parts) ==
    IF Len(parts) < 2 THEN BadEntry
    ELSE EntryOf(ParseInt(parts[1]),
                 ParseFloat(Replace(Strip(parts[2]), kGps, <<>>)),
                 SubSeq(parts, 3, Len(parts)))

\* The body of the loop over entries up to the appends (lines 44-62).
ParseEntry(entry) == EntryOfParts(Split(entry, kComma))

----------------------------------------------------------------------------
(* parse_uploaded_file: one line, and the whole file. *)

\* The seven lists of one line before its entries are read (lines 40-41).
EmptyLists ==
    [timestamps |-> <<>>, gps_statuses |-> <<>>, batteries |-> <<>>,
     rssis |-> <<>>, driftHs |-> <<>>, driftVs |-> <<>>, fc_errors |-> <<>>]

AppendSample_SkipAbsent(lists, e) ==
    [timestamps   |-> Append(lists.timestamps, e.timestamp),
     gps_statuses |-> Append(lists.gps_statuses, e.gps_status),
     batteries    |-> IF e.battery # None THEN Append(lists.batteries, e.battery)
                      ELSE lists.batteries,
     rssis        |-> IF e.rssi # None THEN Append(lists.rssis, e.rssi)
                      ELSE lists.rssis,
     driftHs      |-> Append(lists.driftHs, e.driftH),
     driftVs      |-> Append(lists.driftVs, e.driftV),
     fc_errors    |-> IF e.fc_error # None /\ e.fc_error # Some(0)
                      THEN Append(lists.fc_errors, <<e.timestamp, e.fc_error[1]>>)
                      ELSE lists.fc_errors]

\* The appends that end the loop body (lines 64-71); `if fc_error:` is false
\* for None and for 0.
AppendSample(lists, e) ==
    [timestamps   |-> Append(lists.timestamps, e.timestamp),
     gps_statuses |-> Append(lists.gps_statuses, e.gps_status),
     batteries    |-> Append(lists.batteries, e.battery),
     rssis        |-> Append(lists.rssis, e.rssi),
     driftHs      |-> Append(lists.driftHs, e.driftH),
     driftVs      |-> Append(lists.driftVs, e.driftV),
     fc_errors    |-> IF e.fc_error # None /\ e.fc_error # Some(0)
                      THEN Append(lists.fc_errors, <<e.timestamp, e.fc_error[1]>>)
                      ELSE lists.fc_errors]

\* The loop over the entries of one line (lines 43-71); it stops where an
\* entry raises.
RECURSIVE ParseEntries(_, _)
AddEntry(e, rest, lists) ==
    IF ~e.ok THEN [ok |-> FALSE, data |-> lists]
    ELSE ParseEntries(rest, AppendSample(lists, e))

ParseEntries(entries, lists) ==
    IF entries = <<>> THEN [ok |-> TRUE, data |-> lists]
    ELSE AddEntry(ParseEntry(Head(entries)), Tail(entries), lists)

BadLine == [ok |-> FALSE, drone_id |-> <<>>, data |-> EmptyLists]

\* The entries of a line, data[1:-1].split('//') (line 38).
EntriesOf(data) == Split(Slice1ToLast(data), kEntrySep)

\* One non-blank line (lines 36-81): the unpacking of split(' ', 1) raises
\* without a space, split('=')[1] raises without "=".
LineWith(drone_id, r) ==
    IF ~r.ok THEN BadLine ELSE [ok |-> TRUE, drone_id |-> drone_id, data |-> r.data]

LineOfId(idparts, data) ==
    IF Len(idparts) < 2 THEN BadLine
    ELSE LineWith(idparts[2], ParseEntries(EntriesOf(data), EmptyLists))

LineOfSplit(sp) ==
    IF Len(sp) # 2 THEN BadLine ELSE LineOfId(Split(sp[1], kEq), sp[2])

ParseLine(line) == LineOfSplit(SplitOnce(Strip(line), kSpace))

\* The dict as the sequence of its items in insertion order.
Keys(store) == {store[i].drone_id : i \in 1..Len(store)}

Get(store, k) == store[CHOOSE i \in 1..Len(store) : store[i].drone_id = k].data

\* drones_data[drone_id] = {...} (lines 73-81): a key the dict holds keeps its
\* place, a new key goes last.
DictSet(store, k, v) ==
    IF k \in Keys(store)
    THEN [i \in 1..Len(store) |->
             IF store[i].drone_id = k THEN [drone_id |-> k, data |-> v] ELSE store[i]]
    ELSE Append(store, [drone_id |-> k, data |-> v])

\* The loop over the lines (lines 34-81), from a given dict; blank lines are
\* skipped, and the first line that raises ends the call with what was stored.
RECURSIVE ParseLines(_, _)
StoreLine(l, rest, store) ==
    IF ~l.ok THEN [store |-> store, raised |-> TRUE]
    ELSE ParseLines(rest, DictSet(store, l.drone_id, l.data))

ParseLines(lines, store) ==
    IF lines = <<>> THEN [store |-> store, raised |-> FALSE]
    ELSE IF Strip(Head(lines)) = <<>> THEN ParseLines(Tail(lines), store)
    ELSE StoreLine(ParseLine(Head(lines)), Tail(lines), store)

Extended(old, data) == [f \in DOMAIN EmptyLists |-> old[f] \o data[f]]

RECURSIVE ExtendAll(_, _)
ExtendAll(store, items) ==
    IF items = <<>> THEN store
    ELSE ExtendAll(DictSet(store, Head(items).drone_id,
                       Extended(IF Head(items).drone_id \in Keys(store)
                                THEN Get(store, Head(items).drone_id)
                                ELSE EmptyLists,
                                Head(items).data)),
                   Tail(items))

Accumulated(r) == [store |-> ExtendAll(drones_data, r.store), raised |-> r.raised]

parse_uploaded_file_Keep(lines) == ParseLines(lines, drones_data)

parse_uploaded_file_Accumulate(lines) == Accumulated(ParseLines(lines, <<>>))

\* parse_uploaded_file (lines 26-81) on the decoded lines of the upload: the
\* global is rebound to {} (line 28) and filled line by line.
parse_uploaded_file(lines) == ParseLines(lines, <<>>)

----------------------------------------------------------------------------
(* Helpers of the views. *)

RECURSIVE Insert(_, _)
Insert(sorted, item) ==
    IF sorted = <<>> THEN <<item>>
    ELSE IF StrLess(item.drone_id, Head(sorted).drone_id) THEN <<item>> \o sorted
    ELSE <<Head(sorted)>> \o Insert(Tail(sorted), item)

RECURSIVE SortItems(_)
SortItems(items) ==
    IF items = <<>> THEN <<>>
    ELSE Insert(SortItems(SubSeq(items, 1, Len(items) - 1)), items[Len(items)])

\* sorted(drones_data.items()) (lines 189, 229).
sorted_items(store) == SortItems(store)

RECURSIVE AllTimestamps(_)
AllTimestamps(store) ==
    IF store = <<>> THEN <<>>
    ELSE Head(store).data.timestamps \o AllTimestamps(Tail(store))

Range(s) == {s[i] : i \in 1..Len(s)}

Min(s) == CHOOSE x \in Range(s) : \A y \in Range(s) : x <= y

Max(s) == CHOOSE x \in Range(s) : \A y \in Range(s) : x >= y

\* A quotient a / b that Python computes as a float, kept exact.
Quotient(a, b) == [num |-> a, den |-> b]

FirstOrZero(all) == IF all # <<>> THEN all[1] ELSE 0

\* min(all_timestamps) if all_timestamps else 0 (line 184).
MinOrZero(all) == IF all # <<>> THEN Min(all) ELSE 0

min_timestamp_First(store) == FirstOrZero(AllTimestamps(store))

\* min_timestamp (lines 183-184).
min_timestamp(store) == MinOrZero(AllTimestamps(store))

\* (ts - min_timestamp) / 1000.0 (lines 195, 249).
relative_time(ts, m) == Quotient(ts - m, 1000)

DroneName(drone_id) == <<"D", "r", "o", "n", "e", " ">> \o drone_id

----------------------------------------------------------------------------
(* generate_log_info (lines 84-94), without the analysis date. *)

\* any(status != 6 for status in data['gps_statuses']) (line 86).
AnyNonSix(gps_statuses) == \E i \in 1..Len(gps_statuses) : gps_statuses[i] # 6

RECURSIVE NonSixIds(_)
NonSixIds(store) ==
    IF store = <<>> THEN <<>>
    ELSE (IF AnyNonSix(Head(store).data.gps_statuses)
          THEN <<Head(store).drone_id>> ELSE <<>>) \o NonSixIds(Tail(store))

\* total_duration_seconds (lines 88-89).
total_duration_seconds(all) ==
    IF all # <<>> THEN Quotient(Max(all) - Min(all), 1000) ELSE Quotient(0, 1)

\* The block that generate_log_info returns (lines 91-94).
LogInfo(total_drones, ids, all) ==
    [kind |-> "log_info",
     total_drones |-> total_drones,
     num_non_six_drones |-> Len(ids),
     non_six_drones_ids |-> ids,
     total_duration_seconds |-> total_duration_seconds(all)]

generate_log_info(store) ==
    LogInfo(Len(store), NonSixIds(store), AllTimestamps(store))

----------------------------------------------------------------------------
(* update_output: the fault view (lines 186-218). *)

FaultName_Default(code) ==
    IF code \in DOMAIN ERROR_CODES THEN <<ERROR_CODES[code]>> ELSE <<"ERROR">>

\* The lookup of a recorded code (lines 191-193): <<>> where the loop
\* continues, else the name.
FaultName(code) ==
    IF code \notin DOMAIN ERROR_CODES THEN <<>> ELSE <<ERROR_CODES[code]>>

\* The occurrences of one drone, in the order of its fc_errors list.
Occurrence(drone_id, ts, name, m) ==
    IF name = <<>> THEN <<>>
    ELSE <<[drone_id |-> drone_id, error_name |-> name[1],
            relative_time |-> relative_time(ts, m)]>>

RECURSIVE DroneOccurrences(_, _, _)
DroneOccurrences(drone_id, fc_errors, m) ==
    IF fc_errors = <<>> THEN <<>>
    ELSE Occurrence(drone_id, Head(fc_errors)[1], FaultName(Head(fc_errors)[2]), m)
         \o DroneOccurrences(drone_id, Tail(fc_errors), m)

\* The occurrences in the order the nested loops visit them (lines 189-195).
RECURSIVE Occurrences(_, _)
Occurrences(items, m) ==
    IF items = <<>> THEN <<>>
    ELSE DroneOccurrences(Head(items).drone_id, Head(items).data.fc_errors, m)
         \o Occurrences(Tail(items), m)

\* fig.add_trace(go.Scatter(...)) of one occurrence (lines 196-204).
FaultTrace(o) ==
    [name |-> DroneName(o.drone_id), x |-> <<o.relative_time>>,
     y |-> <<o.error_name>>, mode |-> "markers+text"]

\* error_summary as the sequence of its items in insertion order
\* (lines 187, 194).
\* error_summary.setdefault(error_name, set()).add(drone_id) (line 194).
AddToSummary(summary, o) ==
    IF \E i \in 1..Len(summary) : summary[i].err = o.error_name
    THEN [i \in 1..Len(summary) |->
             IF summary[i].err = o.error_name
             THEN [err |-> o.error_name, ids |-> summary[i].ids \cup {o.drone_id}]
             ELSE summary[i]]
    ELSE Append(summary, [err |-> o.error_name, ids |-> {o.drone_id}])

RECURSIVE ErrorSummary(_, _)
ErrorSummary(occs, summary) ==
    IF occs = <<>> THEN summary
    ELSE ErrorSummary(Tail(occs), AddToSummary(summary, Head(occs)))

Least(ids) == CHOOSE a \in ids : \A b \in ids \ {a} : StrLess(a, b)

\* sorted(ids) (line 207).
RECURSIVE SortedIds(_)
LeastFirst(least, ids) == <<least>> \o SortedIds(ids \ {least})

SortedIds(ids) == IF ids = {} THEN <<>> ELSE LeastFirst(Least(ids), ids)

\* summary_text (lines 207-208): one line per category, ids sorted.
SummaryText(summary) ==
    IF summary = <<>> THEN [kind |-> "no_critical_errors"]
    ELSE [kind |-> "error_summary",
          lines |-> [i \in 1..Len(summary) |->
                        [err |-> summary[i].err, ids |-> SortedIds(summary[i].ids)]]]

\* The two outputs of the fault view from the occurrences (lines 196-218).
FaultOutputs(occs) ==
    [log_info |-> SummaryText(ErrorSummary(occs, <<>>)),
     fig |-> [title |-> "Flight Controller Errors",
              traces |-> [i \in 1..Len(occs) |-> FaultTrace(occs[i])]]]

FaultView(store) ==
    FaultOutputs(Occurrences(sorted_items(store), min_timestamp(store)))

----------------------------------------------------------------------------
(* update_output: the metric views (lines 220-281). *)

titles ==
    [gps_statuses |-> "GPS Status", batteries |-> "Battery (dV)",
     rssis |-> "RSSI", rssi_sik |-> "RSSI SiK (%)",
     driftHs |-> "Horizontal Drift (m)", driftVs |-> "Vertical Drift (m)"]

AllSame(y) == \A i \in 1..Len(y) : y[i] = y[1]

GpsDisplay_NoChangeTest(y_values) ==
    \E i \in 1..Len(y_values) : y_values[i] # 6

\* The gps_statuses branch (lines 239-242).
GpsDisplay(y_values) ==
    IF AllSame(y_values) THEN FALSE
    ELSE \E i \in 1..Len(y_values) : y_values[i] # 6

AnyAbove(y, t) == \E i \in 1..Len(y) : y[i] # None /\ y[i][1] > t

AnyBelow(y, t) == \E i \in 1..Len(y) : y[i] # None /\ y[i][1] < t

AnyAboveInRange(y, t) ==
    \E i \in 1..Len(y) : y[i] # None /\ y[i][1] > t /\ 0 <= y[i][1] /\ y[i][1] <= 100

\* display_drone for one drone (lines 231-247).
DisplayDrone(metric, data, y_values, t) ==
    IF metric \in {"driftHs", "driftVs"} THEN AnyAbove(y_values, t)
    ELSE IF metric = "batteries" THEN AnyBelow(y_values, t)
    ELSE IF metric = "rssis" THEN AnyAbove(y_values, t)
    ELSE IF metric = "gps_statuses" THEN GpsDisplay(y_values)
    ELSE IF metric = "rssi_sik" THEN AnyAboveInRange(data.rssis, t)
    ELSE TRUE

\* fig.add_trace(go.Scatter(...)) of one displayed drone (lines 248-256).
MetricTrace(drone_id, data, y_values, m) ==
    [name |-> DroneName(drone_id),
     x |-> [i \in 1..Len(data.timestamps) |-> relative_time(data.timestamps[i], m)],
     y |-> y_values,
     mode |-> "lines+markers"]

\* The traces of one drone followed by those of the drones after it.
WithTrace(display, trace, rest) ==
    IF rest.raised \/ ~display THEN rest
    ELSE [raised |-> FALSE, traces |-> <<trace>> \o rest.traces]

\* The loop over the sorted drones (lines 229-257): raised is the KeyError
\* of data[selected_metric] for a metric that is no key of the record.
RECURSIVE MetricTraces(_, _, _, _)
DroneTraces(drone_id, data, rest, metric, t, m) ==
    IF metric \notin DOMAIN data THEN [raised |-> TRUE, traces |-> <<>>]
    ELSE WithTrace(DisplayDrone(metric, data, data[metric], t),
                   MetricTrace(drone_id, data, data[metric], m),
                   MetricTraces(rest, metric, t, m))

MetricTraces(items, metric, t, m) ==
    IF items = <<>> THEN [raised |-> FALSE, traces |-> <<>>]
    ELSE DroneTraces(Head(items).drone_id, Head(items).data, Tail(items),
                     metric, t, m)

\* The outputs of a metric view from its traces (lines 259-281).
MetricOutputs(r, store, metric, t) ==
    IF r.raised THEN [raised |-> TRUE]
    ELSE [raised |-> FALSE,
          fig |-> [title |-> titles[metric], traces |-> r.traces],
          log_info |->
              IF Len(r.traces) = 0 /\ metric \in {"driftHs", "driftVs"}
              THEN [kind |-> "no_drones_exceed", threshold |-> t,
                    title |-> titles[metric]]
              ELSE generate_log_info(store)]

MetricView(store, metric, t) ==
    MetricOutputs(MetricTraces(sorted_items(store), metric, t, min_timestamp(store)),
                  store, metric, t)

----------------------------------------------------------------------------
(* update_output (lines 174-281) as one callback run. *)

EmptyFigure == [title |-> "", traces |-> <<>>]

\* What a run that raises returns: nothing (Dash then updates no output).
NoOutput == [log_info |-> [kind |-> "none"], fig |-> EmptyFigure]

\* The outcome of update_output(contents, selected_metric, threshold): the
\* store it leaves and the two outputs it returns.
Returned(store, v) ==
    [drones_data |-> store, log_info |-> v.log_info, fig |-> v.fig, status |-> "ok"]

MetricReturned(store, v) ==
    IF v.raised THEN NoOutput @@ [drones_data |-> store, status |-> "view_raised"]
    ELSE Returned(store, v)

\* The run once the store is rebuilt (lines 178-281).
ViewOf(store, raised, metric, t) ==
    IF raised THEN NoOutput @@ [drones_data |-> store, status |-> "parse_raised"]
    ELSE IF store = <<>>
    THEN [drones_data |-> store, log_info |-> [kind |-> "please_upload"],
          fig |-> EmptyFigure, status |-> "ok"]
    ELSE IF metric = "fc_errors" THEN Returned(store, FaultView(store))
    ELSE MetricReturned(store, MetricView(store, metric, t))

ViewOfParsed(parsed, metric, t) == ViewOf(parsed.store, parsed.raised, metric, t)

update_output(c, metric, t) ==
    ViewOfParsed(IF c # None THEN parse_uploaded_file(c[1])
                 ELSE [store |-> drones_data, raised |-> FALSE],
                 metric, t)

\* One run of the callback for the input values (c, metric, t), fired by a
\* change of `input`.
Callback(c, metric, t, input) ==
    \E r \in {update_output(c, metric, t)} :
        /\ contents' = c
        /\ selected_metric' = metric
        /\ threshold' = t
        /\ triggered' = input
        /\ drones_data' = r.drones_data
        /\ log_info' = r.log_info
        /\ fig' = r.fig
        /\ status' = r.status
        /\ discarded' = (Keys(drones_data) \ Keys(r.drones_data) # {})

Metrics ==
    {"rssi_sik", "gps_statuses", "batteries", "rssis", "driftHs", "driftVs",
     "fc_errors"}

Thresholds == {0, 1}

\* A file is dropped on upload-data.
UploadFile(lines) ==
    Callback(Some(lines), selected_metric, threshold, "upload-data")

\* Another radio item of metric-selector is chosen.
SelectMetric(metric) ==
    /\ metric # selected_metric
    /\ Callback(contents, metric, threshold, "metric-selector")

\* Another number is entered in drift-threshold.
SetThreshold(t) ==
    /\ t # threshold
    /\ Callback(contents, selected_metric, t, "drift-threshold")

\* The layout as served (lines 96-147), before any callback run.
Init ==
    /\ contents = None
    /\ selected_metric = "gps_statuses"
    /\ threshold = 0
    /\ drones_data = <<>>
    /\ log_info = [kind |-> "none"]
    /\ fig = EmptyFigure
    /\ status = "init"
    /\ triggered = "none"
    /\ discarded = FALSE

----------------------------------------------------------------------------
(* The uploaded files: log lines written in the grammar of the parser. *)

RECURSIVE NatText(_)
NatText(n) ==
    IF n < 10 THEN <<Digits[n + 1]>>
    ELSE NatText(n \div 10) \o <<Digits[(n % 10) + 1]>>

Field(key, value) == key \o kEq \o value

EntryText(ts, gps, fields) == Join(<<ts, kGps \o gps>> \o fields, kComma)

LineText(id, entries) ==
    <<"i", "d", "=">> \o id \o <<" ", "(">> \o Join(entries, kEntrySep) \o <<")">>

\* Lines for the views: drones "2", "10" and "1" (twice), with a status that
\* changes or not, values at, beyond and short of the thresholds, absent
\* values, and fault codes 0, known and unknown.
ViewLines ==
    { LineText(<<"2">>,
        << EntryText(NatText(10), NatText(6),
             << Field(kBattery, NatText(12)), Field(kRssi, NatText(80)),
                Field(kDriftH, NatText(1)), Field(kDriftV, NatText(0)),
                Field(kFcError, NatText(0)) >>),
           EntryText(NatText(20), NatText(3),
             << Field(kBattery, NatText(11)), Field(kRssi, NatText(80)),
                Field(kDriftH, NatText(2)), Field(kDriftV, NatText(0)),
                Field(kFcError, NatText(199)) >>) >>),
      LineText(<<"1", "0">>,
        << EntryText(NatText(5), NatText(6),
             << Field(kRssi, kNone), Field(kFcError, NatText(7)) >>),
           EntryText(NatText(30), NatText(6),
             << Field(kFcError, NatText(193)), Field(kRssi, NatText(120)) >>) >>),
      LineText(<<"1">>,
        << EntryText(NatText(15), NatText(3),
             << Field(kBattery, NatText(1)), Field(kDriftV, NatText(1)) >>) >>),
      LineText(<<"1">>,
        << EntryText(NatText(10), NatText(5),
             << Field(kRssi, NatText(1)), Field(kBattery, NatText(0)) >>),
           EntryText(NatText(25), NatText(3),
             << Field(kFcError, NatText(199)) >>) >>) }

\* Lines for the parser: well-formed ones, a line without a space, an entry
\* with a non-numeric timestamp, a battery of None, and a blank line.
ParserLines ==
    { LineText(<<"1">>,
        << EntryText(NatText(10), NatText(6),
             << Field(kBattery, NatText(12)), Field(kRssi, kNone),
                Field(kDriftH, NatText(1)), Field(kDriftV, NatText(0)),
                Field(kFcError, NatText(0)) >>) >>),
      LineText(<<"2">>,
        << EntryText(NatText(5), NatText(3), << Field(kRssi, NatText(50)) >>),
           EntryText(NatText(20), NatText(6),
             << Field(kFcError, NatText(199)) >>) >>),
      <<"g", "a", "r", "b", "a", "g", "e">>,
      LineText(<<"3">>,
        << EntryText(<<"x">>, NatText(6), <<>>),
           EntryText(NatText(20), NatText(6), <<>>) >>),
      LineText(<<"1">>,
        << EntryText(NatText(7), NatText(6),
             << Field(kBattery, kNone) >>) >>),
      <<" ">> }

\* A file: at most MaxLines lines of a pool, no line twice.
Uploads(pool) ==
    {f \in UNION {[1..n -> pool] : n \in 0..MaxLines} :
        \A i, j \in DOMAIN f : i # j => f[i] # f[j]}

ViewUploads == Uploads(ViewLines)

ParserUploads == Uploads(ParserLines)

----------------------------------------------------------------------------
(* The specifications. *)

Next ==
    \/ \E lines \in ViewUploads : UploadFile(lines)
    \/ \E metric \in Metrics : SelectMetric(metric)
    \/ \E t \in Thresholds : SetThreshold(t)

Spec == Init /\ [][Next]_vars

NextParser ==
    \/ \E lines \in ParserUploads : UploadFile(lines)
    \/ \E metric \in {"gps_statuses", "fc_errors"} : SelectMetric(metric)
    \/ \E t \in Thresholds : SetThreshold(t)

SpecParser == Init /\ [][NextParser]_vars

----------------------------------------------------------------------------
(* What the properties read off the state. *)

Lines == IF contents = None THEN <<>> ELSE contents[1]

Blank(k) == Strip(Lines[k]) = <<>>

LineId(k) == ParseLine(Lines[k]).drone_id

\* The first line at which the parser raises, Len(Lines) + 1 if none.
FirstRaise ==
    LET bad == {k \in 1..Len(Lines) : ~Blank(k) /\ ~ParseLine(Lines[k]).ok}
    IN  IF bad = {} THEN Len(Lines) + 1
        ELSE CHOOSE k \in bad : \A j \in bad : k <= j

\* The lines the parser stored a record for.
Processed == {k \in 1..Len(Lines) : k < FirstRaise /\ ~Blank(k)}

HasSource(id) == \E k \in Processed : LineId(k) = id

\* The line a stored record comes from: the last processed line of that id.
SourceLine(id) ==
    CHOOSE k \in Processed :
        LineId(k) = id /\ \A j \in Processed : j > k => LineId(j) # id

RawEntries(k) == EntriesOf(SplitOnce(Strip(Lines[k]), kSpace)[2])

Sample(k, i) == ParseEntry(RawEntries(k)[i])

Displayed == {fig.traces[i].name : i \in 1..Len(fig.traces)}

GlobalMin ==
    LET all == UNION {Range(drones_data[i].data.timestamps) : i \in 1..Len(drones_data)}
    IN  CHOOSE m \in all : \A ts \in all : m <= ts

----------------------------------------------------------------------------
(* The grammar of a well-formed line, given the keys for which the literal *)
(* None is a sentinel.                                                     *)

OptionalKeys == {kBattery, kRssi, kDriftH, kDriftV, kFcError}

IsNoneToken(part, key) ==
    LET kv == Split(part, kEq)
    IN  Len(kv) = 2 /\ kv[1] = key /\ Strip(kv[2]) = kNone

OptionalParts(entry) ==
    LET parts == Split(entry, kComma) IN SubSeq(parts, 3, Len(parts))

\* The last token of `key` in the entry has the value None.
LastIsNone(entry, key) ==
    LET ps  == OptionalParts(entry)
        idx == {j \in 1..Len(ps) : Len(Split(ps[j], kEq)) = 2 /\ Split(ps[j], kEq)[1] = key}
    IN  idx # {} /\ IsNoneToken(ps[CHOOSE j \in idx : \A h \in idx : h <= j], key)

TokenOk(part, sentinelKeys) ==
    \/ ~Contains(part, kEq)
    \/ LET kv == Split(part, kEq)
       IN  /\ Len(kv) = 2
           /\ \/ kv[1] \notin OptionalKeys
              \/ Strip(kv[2]) = kNone /\ kv[1] \in sentinelKeys
              \/ IF kv[1] = kFcError THEN ParseInt(Strip(kv[2])).ok
                 ELSE ParseFloat(Strip(kv[2])).ok

EntryOk(entry, sentinelKeys) ==
    LET parts == Split(entry, kComma)
    IN  /\ Len(parts) >= 2
        /\ ParseInt(parts[1]).ok
        /\ ParseFloat(Replace(Strip(parts[2]), kGps, <<>>)).ok
        /\ \A j \in 3..Len(parts) : TokenOk(parts[j], sentinelKeys)

LineOk(line, sentinelKeys) ==
    LET sp == SplitOnce(Strip(line), kSpace)
    IN  /\ Len(sp) = 2
        /\ Len(Split(sp[1], kEq)) >= 2
        /\ \A i \in 1..Len(EntriesOf(sp[2])) : EntryOk(EntriesOf(sp[2])[i], sentinelKeys)

AllLinesOk(sentinelKeys) ==
    \A k \in 1..Len(Lines) : Blank(k) \/ LineOk(Lines[k], sentinelKeys)

----------------------------------------------------------------------------
(* C1 *)

\* C1: the store holds exactly the records of the most recent upload: every
\* stored record is the record of the last processed line of its id in the
\* current contents, every processed line's id is stored, and before any
\* upload the store is empty.
C1_StoreIsLastUpload ==
    /\ Keys(drones_data) = {LineId(k) : k \in Processed}
    /\ \A i \in 1..Len(drones_data) :
           /\ HasSource(drones_data[i].drone_id)
           /\ drones_data[i].data = ParseLine(Lines[SourceLine(drones_data[i].drone_id)]).data
    /\ \A i, j \in 1..Len(drones_data) :
           drones_data[i].drone_id = drones_data[j].drone_id => i = j

\* C1 witness: the last upload replaced a store holding a drone id that the
\* new, non-empty store no longer holds.
C1_Witness == discarded /\ drones_data # <<>> /\ triggered = "upload-data"

----------------------------------------------------------------------------
(* C2 *)

\* C2 (as claimed): every well-formed line of the upload is in the store
\* afterwards, whatever malformed line or entry the upload also contains.
C2_LocalRecovery ==
    \A k \in 1..Len(Lines) :
        (~Blank(k) /\ ParseLine(Lines[k]).ok) => LineId(k) \in Keys(drones_data)

----------------------------------------------------------------------------
(* C3 *)

\* C3 (amended): in an upload whose lines are well-formed with None as a
\* sentinel of rssi only, the parser does not raise and an entry whose rssi
\* token is None is stored with rssi None; a None token of battery, driftH,
\* driftV or fc_error makes the parser raise.
C3_RssiNoneIsAbsent ==
    /\ AllLinesOk({kRssi}) =>
         /\ status # "parse_raised"
         /\ \A k \in 1..Len(Lines) :
              (~Blank(k) /\ SourceLine(LineId(k)) = k) =>
                 LET rec == Get(drones_data, LineId(k))
                 IN  /\ Len(rec.rssis) = Len(RawEntries(k))
                     /\ \A i \in 1..Len(RawEntries(k)) :
                            LastIsNone(RawEntries(k)[i], kRssi) => rec.rssis[i] = None
    /\ \A k \in 1..Len(Lines) :
         (/\ ~Blank(k)
          /\ Len(SplitOnce(Strip(Lines[k]), kSpace)) = 2
          /\ \E i \in 1..Len(RawEntries(k)) :
               \E j \in 1..Len(OptionalParts(RawEntries(k)[i])) :
                 \E key \in OptionalKeys \ {kRssi} :
                    IsNoneToken(OptionalParts(RawEntries(k)[i])[j], key))
         => status = "parse_raised"

\* C3 witness: a stored sample whose entry has rssi=None.
C3_Witness ==
    /\ status = "ok"
    /\ \E k \in Processed :
         /\ SourceLine(LineId(k)) = k
         /\ \E i \in 1..Len(RawEntries(k)) :
              /\ LastIsNone(RawEntries(k)[i], kRssi)
              /\ Get(drones_data, LineId(k)).rssis[i] = None

\* C3 (as claimed): with None a sentinel of every optional key, an upload of
\* well-formed lines never raises and every line is stored.
C3_EveryKeyNoneIsAbsent ==
    AllLinesOk(OptionalKeys) =>
        /\ status # "parse_raised"
        /\ \A k \in 1..Len(Lines) : ~Blank(k) => LineId(k) \in Keys(drones_data)

----------------------------------------------------------------------------
(* C4 *)

\* The drone `name` has a decoded sample whose fc_error is present, non-zero
\* and a key of ERROR_CODES named `err`, at relative time `x` if x # <<>>.
KnownFaultSample(name, err, x) ==
    \E k \in Processed :
        /\ SourceLine(LineId(k)) = k
        /\ DroneName(LineId(k)) = name
        /\ \E i \in 1..Len(RawEntries(k)) :
              LET e == Sample(k, i)
              IN  /\ e.fc_error # None
                  /\ e.fc_error[1] # 0
                  /\ e.fc_error[1] \in DOMAIN ERROR_CODES
                  /\ ERROR_CODES[e.fc_error[1]] = err
                  /\ x # <<>> => x[1] = Quotient(e.timestamp - GlobalMin, 1000)

\* C4: in the fault view every plotted occurrence and every id of the
\* summary comes from a sample whose fc_error is present, non-zero and a key
\* of ERROR_CODES.
C4_OnlyKnownNonZeroFaults ==
    (status = "ok" /\ selected_metric = "fc_errors" /\ drones_data # <<>>) =>
        /\ \A t \in 1..Len(fig.traces) :
              KnownFaultSample(fig.traces[t].name, fig.traces[t].y[1], fig.traces[t].x)
        /\ log_info.kind \in {"error_summary", "no_critical_errors"}
        /\ log_info.kind = "error_summary" =>
              \A l \in 1..Len(log_info.lines) :
                  \A n \in 1..Len(log_info.lines[l].ids) :
                      KnownFaultSample(DroneName(log_info.lines[l].ids[n]),
                                       log_info.lines[l].err, <<>>)

\* C4 witness: a fault view with an occurrence, of a store that also holds a
\* sample with fc_error=0 and a sample with a code that is no key of the
\* table.
C4_Witness ==
    /\ status = "ok" /\ selected_metric = "fc_errors"
    /\ Len(fig.traces) > 0
    /\ \E k \in Processed : \E i \in 1..Len(RawEntries(k)) :
          Sample(k, i).fc_error = Some(0)
    /\ \E k \in Processed : \E i \in 1..Len(RawEntries(k)) :
          /\ Sample(k, i).fc_error # None
          /\ Sample(k, i).fc_error[1] # 0
          /\ Sample(k, i).fc_error[1] \notin DOMAIN ERROR_CODES

----------------------------------------------------------------------------
(* C5 *)

\* Some present value of the drone is strictly beyond the threshold.
Beyond(metric, rec, t) ==
    IF metric = "batteries"
    THEN \E i \in 1..Len(rec.batteries) :
            rec.batteries[i] # None /\ rec.batteries[i][1] < t
    ELSE IF metric = "rssi_sik"
    THEN \E i \in 1..Len(rec.rssis) :
            /\ rec.rssis[i] # None
            /\ rec.rssis[i][1] > t
            /\ rec.rssis[i][1] >= 0 /\ rec.rssis[i][1] <= 100
    ELSE \E i \in 1..Len(rec[metric]) : rec[metric][i] # None /\ rec[metric][i][1] > t

ExpectedByThreshold ==
    {DroneName(drones_data[i].drone_id) : i \in
        {j \in 1..Len(drones_data) :
            Beyond(selected_metric, drones_data[j].data, threshold)}}

\* C5 (as claimed): under each threshold metric the displayed drones are
\* exactly those with a present value strictly beyond the threshold.
C5_StrictThreshold ==
    (/\ selected_metric \in {"driftHs", "driftVs", "rssis", "rssi_sik", "batteries"}
     /\ drones_data # <<>>)
    => Displayed = ExpectedByThreshold

\* C5, for the metrics other than rssi_sik: the displayed drones are exactly
\* those with a present value strictly beyond the threshold.
C5_StrictThreshold_StoredMetrics ==
    (/\ selected_metric \in {"driftHs", "driftVs", "rssis", "batteries"}
     /\ drones_data # <<>>)
    => status = "ok" /\ Displayed = ExpectedByThreshold

\* C5, rssi_sik: with a non-empty store the callback raises and displays
\* nothing.
C5_RssiSikRaises ==
    (selected_metric = "rssi_sik" /\ drones_data # <<>>)
    => status = "view_raised" /\ fig = EmptyFigure

----------------------------------------------------------------------------
(* C6 *)

\* C6: in the gps_statuses view a drone is displayed iff its statuses are
\* not all identical and at least one differs from 6.
C6_GpsChangedAndNonNominal ==
    (status = "ok" /\ selected_metric = "gps_statuses" /\ drones_data # <<>>) =>
        Displayed =
          {DroneName(drones_data[i].drone_id) : i \in
             {j \in 1..Len(drones_data) :
                LET y == drones_data[j].data.gps_statuses
                IN  /\ \E a, b \in 1..Len(y) : y[a] # y[b]
                    /\ \E a \in 1..Len(y) : y[a] # 6}}

\* C6 witness: a gps_statuses view that displays a drone and leaves out a
\* drone whose status is constant at a value other than 6.
C6_Witness ==
    /\ status = "ok" /\ selected_metric = "gps_statuses"
    /\ Displayed # {}
    /\ \E i \in 1..Len(drones_data) :
          LET y == drones_data[i].data.gps_statuses
          IN  /\ \A a \in 1..Len(y) : y[a] = y[1] /\ y[a] # 6
              /\ DroneName(drones_data[i].drone_id) \notin Displayed

----------------------------------------------------------------------------
(* C7 *)

\* C7 (as claimed): the ids of the summary are exactly the drones with a
\* status other than 6, in lexicographically sorted order.
C7_SortedNonNominalIds ==
    log_info.kind = "log_info" =>
        LET ids == log_info.non_six_drones_ids
        IN  /\ Range(ids) =
                 {drones_data[i].drone_id : i \in
                    {j \in 1..Len(drones_data) :
                       \E a \in 1..Len(drones_data[j].data.gps_statuses) :
                          drones_data[j].data.gps_statuses[a] # 6}}
            /\ \A a, b \in 1..Len(ids) : a < b => StrLess(ids[a], ids[b])

----------------------------------------------------------------------------
(* C8 *)

\* C8: every relative time of a view is (ts - m) / 1000 for the minimum m of
\* all timestamps of the current store; none is negative, and a sample at m
\* is at 0.
C8_SharedMinimum ==
    (status = "ok" /\ drones_data # <<>>) =>
        \A t \in 1..Len(fig.traces) :
            \E i \in 1..Len(drones_data) :
                LET tr  == fig.traces[t]
                    rec == drones_data[i].data
                IN  /\ DroneName(drones_data[i].drone_id) = tr.name
                    /\ \A j \in 1..Len(tr.x) : tr.x[j].num >= 0 /\ tr.x[j].den = 1000
                    /\ IF selected_metric = "fc_errors"
                       THEN \E j \in 1..Len(rec.fc_errors) :
                               tr.x = <<Quotient(rec.fc_errors[j][1] - GlobalMin, 1000)>>
                       ELSE /\ Len(tr.x) = Len(rec.timestamps)
                            /\ \A j \in 1..Len(tr.x) :
                                  /\ tr.x[j] = Quotient(rec.timestamps[j] - GlobalMin, 1000)
                                  /\ rec.timestamps[j] = GlobalMin => tr.x[j].num = 0

\* C8 witness: a view of two drones that both have the earliest timestamp,
\* each with a sample at 0 and one with a later sample.
C8_Witness ==
    /\ status = "ok" /\ selected_metric # "fc_errors"
    /\ \E a, b \in 1..Len(fig.traces) :
          /\ a # b
          /\ \E j \in 1..Len(fig.traces[a].x) : fig.traces[a].x[j].num = 0
          /\ \E j \in 1..Len(fig.traces[b].x) : fig.traces[b].x[j].num = 0
          /\ \E j \in 1..Len(fig.traces[b].x) : fig.traces[b].x[j].num > 0

----------------------------------------------------------------------------
(* C9 *)

\* C9: the six per-field sequences of every stored record have the length of
\* the record's entries, and index i of each holds the field of entry i.
C9_AlignedSequences ==
    \A i \in 1..Len(drones_data) :
        LET rec == drones_data[i].data
            k   == SourceLine(drones_data[i].drone_id)
            n   == Len(RawEntries(k))
        IN  /\ HasSource(drones_data[i].drone_id)
            /\ Len(rec.timestamps) = n /\ Len(rec.gps_statuses) = n
            /\ Len(rec.batteries) = n /\ Len(rec.rssis) = n
            /\ Len(rec.driftHs) = n /\ Len(rec.driftVs) = n
            /\ \A j \in 1..n :
                  /\ Sample(k, j).ok
                  /\ rec.timestamps[j] = Sample(k, j).timestamp
                  /\ rec.gps_statuses[j] = Sample(k, j).gps_status
                  /\ rec.batteries[j] = Sample(k, j).battery
                  /\ rec.rssis[j] = Sample(k, j).rssi
                  /\ rec.driftHs[j] = Sample(k, j).driftH
                  /\ rec.driftVs[j] = Sample(k, j).driftV

\* C9 witness: a stored record of two entries, one with an rssi value and
\* one without.
C9_Witness ==
    \E i \in 1..Len(drones_data) :
        LET rec == drones_data[i].data
        IN  /\ Len(rec.timestamps) = 2
            /\ \E a, b \in 1..2 : rec.rssis[a] = None /\ rec.rssis[b] # None

----------------------------------------------------------------------------
(* C10 *)

\* C10: a callback run on unchanged contents leaves the store as it was, and
\* with the metric and the threshold unchanged too it returns the same
\* outputs.
C10_RebuildIdempotent ==
    [][(contents # None /\ contents' = contents) =>
          /\ drones_data' = drones_data
          /\ (selected_metric' = selected_metric /\ threshold' = threshold) =>
                (status' = status /\ fig' = fig /\ log_info' = log_info)]_vars

\* C10 witness: the store after a run that parsed again the contents of the
\* run before it.
C10_Witness ==
    /\ triggered \in {"metric-selector", "drift-threshold"}
    /\ contents # None /\ drones_data # <<>> /\ status = "ok"
    /\ Len(fig.traces) > 1

============================================================================
